---- MODULE Spec2Model ----
(***************************************************************************)
(* A model of shpool's keybinding engine (src/daemon/keybindings.rs): the  *)
(* binding-language lexer and parser, chord validation and key codes, the  *)
(* generic trie, and the Bindings matcher that scans input byte by byte.   *)
(*                                                                         *)
(* Conventions.  A Rust char is a one-character string; a &str / String    *)
(* is a sequence of chars.  Option<T> is <<>> (None) or <<v>> (Some(v)).   *)
(* A Vec is a sequence; the 0-based Rust index i is element i + 1.         *)
(***************************************************************************)
EXTENDS Integers, Sequences, FiniteSets, TLC

----------------------------------------------------------------------------
(* Characters and strings                                                  *)

LowerSeq == <<
    "a", "b", "c", "d", "e", "f", "g", "h", "i", "j", "k", "l", "m", "n",
    "o", "p", "q", "r", "s", "t", "u", "v", "w", "x", "y", "z" >>

UpperSeq == <<
    "A", "B", "C", "D", "E", "F", "G", "H", "I", "J", "K", "L", "M", "N",
    "O", "P", "Q", "R", "S", "T", "U", "V", "W", "X", "Y", "Z" >>

DigitSeq == <<
    "0", "1", "2", "3", "4", "5", "6", "7", "8", "9" >>

Range(s) == {s[i] : i \in 1..Len(s)}

IndexOf(s, x) == CHOOSE i \in 1..Len(s) : s[i] = x

LowerLetters == Range(LowerSeq)

UpperLetters == Range(UpperSeq)

Digits == Range(DigitSeq)

\* char::is_whitespace, on the whitespace the model feeds
IsWhitespace(c) == c \in {" ", "\t"}

\* char::is_digit(radix) for radix 36: 0-9, a-z and A-Z
IsDigit36(c) == c \in Digits \cup LowerLetters \cup UpperLetters

\* `c as u32`: the code point of an ASCII character
CodePoint(c) ==
    IF c \in LowerLetters THEN 96 + IndexOf(LowerSeq, c)
    ELSE IF c \in UpperLetters THEN 64 + IndexOf(UpperSeq, c)
    ELSE IF c \in Digits THEN 47 + IndexOf(DigitSeq, c)
    ELSE CASE c = " " -> 32 [] c = "\t" -> 9 [] c = "-" -> 45
           [] c = "?" -> 63 [] c = "@" -> 64 [] c = "[" -> 91
           [] c = "\\" -> 92 [] c = "]" -> 93 [] c = "^" -> 94
           [] c = "_" -> 95

CTRL == <<"C", "t", "r", "l">>

SPACE == <<"S", "p", "a", "c", "e">>

None == <<>>

Some(v) == <<v>>

IsSome(o) == o /= <<>>

Unwrap(o) == o[1]

U8_MAX == 255

\* `x as u8`
AsU8(x) == x % (U8_MAX + 1)

----------------------------------------------------------------------------
(* Data tables                                                             *)

CONTROL_CODES == <<
    <<<<"C", "t", "r", "l", "-", "S", "p", "a", "c", "e">>, 0>>,
    <<<<"C", "t", "r", "l", "-", "a">>, 1>>,
    <<<<"C", "t", "r", "l", "-", "b">>, 2>>,
    <<<<"C", "t", "r", "l", "-", "c">>, 3>>,
    <<<<"C", "t", "r", "l", "-", "d">>, 4>>,
    <<<<"C", "t", "r", "l", "-", "e">>, 5>>,
    <<<<"C", "t", "r", "l", "-", "f">>, 6>>,
    <<<<"C", "t", "r", "l", "-", "g">>, 7>>,
    <<<<"C", "t", "r", "l", "-", "h">>, 8>>,
    <<<<"C", "t", "r", "l", "-", "i">>, 9>>,
    <<<<"C", "t", "r", "l", "-", "j">>, 10>>,
    <<<<"C", "t", "r", "l", "-", "k">>, 11>>,
    <<<<"C", "t", "r", "l", "-", "l">>, 12>>,
    <<<<"C", "t", "r", "l", "-", "m">>, 13>>,
    <<<<"C", "t", "r", "l", "-", "n">>, 14>>,
    <<<<"C", "t", "r", "l", "-", "o">>, 15>>,
    <<<<"C", "t", "r", "l", "-", "p">>, 16>>,
    <<<<"C", "t", "r", "l", "-", "q">>, 17>>,
    <<<<"C", "t", "r", "l", "-", "r">>, 18>>,
    <<<<"C", "t", "r", "l", "-", "s">>, 19>>,
    <<<<"C", "t", "r", "l", "-", "t">>, 20>>,
    <<<<"C", "t", "r", "l", "-", "u">>, 21>>,
    <<<<"C", "t", "r", "l", "-", "v">>, 22>>,
    <<<<"C", "t", "r", "l", "-", "w">>, 23>>,
    <<<<"C", "t", "r", "l", "-", "y">>, 24>>,
    <<<<"C", "t", "r", "l", "-", "x">>, 25>>,
    <<<<"C", "t", "r", "l", "-", "z">>, 26>>,
    <<<<"C", "t", "r", "l", "-", "@">>, 0>>,
    <<<<"C", "t", "r", "l", "-", "2">>, 0>>,
    <<<<"C", "t", "r", "l", "-", "[">>, 27>>,
    <<<<"C", "t", "r", "l", "-", "3">>, 27>>,
    <<<<"C", "t", "r", "l", "-", "\\">>, 28>>,
    <<<<"C", "t", "r", "l", "-", "4">>, 28>>,
    <<<<"C", "t", "r", "l", "-", "]">>, 29>>,
    <<<<"C", "t", "r", "l", "-", "5">>, 29>>,
    <<<<"C", "t", "r", "l", "-", "^">>, 30>>,
    <<<<"C", "t", "r", "l", "-", "6">>, 30>>,
    <<<<"C", "t", "r", "l", "-", "_">>, 31>>,
    <<<<"C", "t", "r", "l", "-", "7">>, 31>>,
    <<<<"C", "t", "r", "l", "-", "?">>, 127>>,
    <<<<"C", "t", "r", "l", "-", "8">>, 127>>,
    <<<<"C", "t", "r", "l", "-", "0">>, 127>> >>


----------------------------------------------------------------------------
(* Trie (used in both the parser and the execution engine)                 *)

\* TrieCursor
Start == [kind |-> "Start"]

Match(idx, is_partial) == [kind |-> "Match", idx |-> idx, is_partial |-> is_partial]

NoMatch == [kind |-> "NoMatch"]

\* TrieTab::new.  "HashMap" is HashMap<Sym, usize>; "Vec" is the dense
\* Vec<Option<usize>> used for u8 and for ChordAtom symbols (a ChordAtom is
\* modelled by the u8 it wraps).
TrieTab_new(kind) ==
    IF kind = "HashMap"
    THEN [kind |-> "HashMap", m |-> [x \in {} |-> 0]]
    ELSE [kind |-> "Vec", v |-> [i \in 1..U8_MAX |-> None]]

\* Indexing a Vec out of range aborts the call; a HashMap lookup never does.
TrieTab_in_bounds(tab, index) ==
    IF tab.kind = "HashMap" THEN TRUE ELSE index < Len(tab.v)

\* TrieTab::get, for an index that is in bounds
TrieTab_get(tab, index) ==
    IF tab.kind = "HashMap"
    THEN (IF index \in DOMAIN tab.m THEN Some(tab.m[index]) ELSE None)
    ELSE tab.v[index + 1]

\* TrieTab::set, for an index that is in bounds
TrieTab_set(tab, index, elem) ==
    IF tab.kind = "HashMap"
    THEN [tab EXCEPT !.m = [x \in (DOMAIN tab.m) \cup {index} |->
                               IF x = index THEN elem ELSE tab.m[x]]]
    ELSE [tab EXCEPT !.v[index + 1] = Some(elem)]

TrieNode_new(value, kind) == [value |-> value, tab |-> TrieTab_new(kind)]

Trie_new(kind) == [nodes |-> <<TrieNode_new(None, kind)>>]

TabKind(trie) == trie.nodes[1].tab.kind

\* The loop of Trie::insert: walks seq from current_node, pushing a node for
\* every missing edge.  panic is set when a table index is out of range.
RECURSIVE InsertWalk(_, _, _)
InsertWalk(trie, current_node, seq) ==
    IF seq = <<>>
    THEN [trie |-> trie, current_node |-> current_node, panic |-> FALSE]
    ELSE LET sym == Head(seq)
             tab == trie.nodes[current_node + 1].tab
         IN  IF ~TrieTab_in_bounds(tab, sym)
             THEN [trie |-> trie, current_node |-> current_node, panic |-> TRUE]
             ELSE IF IsSome(TrieTab_get(tab, sym))
             THEN InsertWalk(trie, Unwrap(TrieTab_get(tab, sym)), Tail(seq))
             ELSE LET idx == Len(trie.nodes)
                      pushed == Append(trie.nodes, TrieNode_new(None, TabKind(trie)))
                      linked == [pushed EXCEPT ![current_node + 1].tab =
                                                  TrieTab_set(@, sym, idx)]
                  IN  InsertWalk([nodes |-> linked], idx, Tail(seq))

Trie_insert_panics(trie, seq) == InsertWalk(trie, 0, seq).panic

\* Trie::insert that keeps a value the final node already has
Trie_insert_keep_first(trie, seq, value) ==
    LET w == InsertWalk(trie, 0, seq)
    IN  [nodes |-> [w.trie.nodes EXCEPT ![w.current_node + 1].value =
                       IF IsSome(@) THEN @ ELSE Some(value)]]

\* Trie::insert, for a seq on which it does not panic
Trie_insert(trie, seq, value) ==
    LET w == InsertWalk(trie, 0, seq)
    IN  [nodes |-> [w.trie.nodes EXCEPT ![w.current_node + 1].value = Some(value)]]

CursorNode(trie, cursor) ==
    IF cursor.kind = "Start" THEN trie.nodes[1] ELSE trie.nodes[cursor.idx + 1]

Trie_advance_panics(trie, cursor, sym) ==
    /\ cursor.kind /= "NoMatch"
    /\ ~TrieTab_in_bounds(CursorNode(trie, cursor).tab, sym)

\* Trie::advance, for a sym on which it does not panic
Trie_advance(trie, cursor, sym) ==
    IF cursor.kind = "NoMatch" THEN NoMatch
    ELSE LET found == TrieTab_get(CursorNode(trie, cursor).tab, sym)
         IN  IF IsSome(found)
             THEN Match(Unwrap(found),
                        ~IsSome(trie.nodes[Unwrap(found) + 1].value))
             ELSE NoMatch

Trie_get(trie, cursor) ==
    IF cursor.kind = "Match" THEN trie.nodes[cursor.idx + 1].value ELSE None

RECURSIVE ContainsWalk(_, _, _)
ContainsWalk(trie, match_state, seq) ==
    IF seq = <<>> THEN match_state
    ELSE LET next == Trie_advance(trie, match_state, Head(seq))
         IN  IF next.kind = "NoMatch" THEN NoMatch
             ELSE ContainsWalk(trie, next, Tail(seq))

\* Trie::contains without the test of is_partial: any node reached counts
Trie_contains_any_match(trie, seq) ==
    LET match_state == ContainsWalk(trie, Start, seq)
    IN  IF match_state.kind = "Start" THEN IsSome(trie.nodes[1].value)
        ELSE IF match_state.kind = "Match" THEN TRUE
        ELSE FALSE

Trie_contains(trie, seq) ==
    LET match_state == ContainsWalk(trie, Start, seq)
    IN  IF match_state.kind = "Start" THEN IsSome(trie.nodes[1].value)
        ELSE IF match_state.kind = "Match" THEN ~match_state.is_partial
        ELSE FALSE

----------------------------------------------------------------------------
(* anyhow::Result                                                          *)

Ok(v) == [ok |-> TRUE, val |-> v]

Err(e) == [ok |-> FALSE, err |-> e, context |-> ""]

\* anyhow::Context::context
Context(res, ctx) == IF res.ok THEN res ELSE [res EXCEPT !.context = ctx]

----------------------------------------------------------------------------
(* Lexer                                                                   *)

\* Token
Key(text) == [t |-> "Key", key |-> text]

Dash == [t |-> "Dash"]

\* Lexer::new: the trie of the reserved words
Lexer_new ==
    Trie_insert(Trie_insert(Trie_new("HashMap"), CTRL, <<>>), SPACE, <<>>)

\* The replay with every letter taken as a key, not only 'a'..='z'
RECURSIVE ReplayWordChars_any_letter(_, _)
ReplayWordChars_any_letter(word_chars, tokens) ==
    IF word_chars = <<>> THEN Ok(tokens)
    ELSE LET c == Head(word_chars)
         IN  IF c = "-"
             THEN ReplayWordChars_any_letter(Tail(word_chars), Append(tokens, Dash))
             ELSE IF c \in LowerLetters \cup UpperLetters
             THEN ReplayWordChars_any_letter(Tail(word_chars),
                                             Append(tokens, Key(<<c>>)))
             ELSE Err("unexpected char")

\* The replay of the buffered characters when the keyword match fails
RECURSIVE ReplayWordChars(_, _)
ReplayWordChars(word_chars, tokens) ==
    IF word_chars = <<>> THEN Ok(tokens)
    ELSE LET c == Head(word_chars)
         IN  IF c = "-" THEN ReplayWordChars(Tail(word_chars), Append(tokens, Dash))
             ELSE IF c \in LowerLetters
             THEN ReplayWordChars(Tail(word_chars), Append(tokens, Key(<<c>>)))
             ELSE Err("unexpected char")

\* The body of `for c in src` in Lexer::tokenize.  st holds the locals
\* tokens, word_chars and cursor; st.res is Ok until tokenize returns early.
TokenizeStep(st, c) ==
    LET new_cursor == Trie_advance(Lexer_new, st.cursor, c)
        replay == ReplayWordChars(Append(st.word_chars, c), st.tokens)
    IN  IF IsWhitespace(c) THEN st
        ELSE IF new_cursor.kind = "Start"
        THEN [st EXCEPT !.res = Err("internal error: trie bug")]
        ELSE IF new_cursor.kind = "NoMatch"
        THEN IF replay.ok
             THEN [st EXCEPT !.cursor = Start, !.tokens = replay.val,
                             !.word_chars = <<>>]
             ELSE [st EXCEPT !.cursor = Start, !.res = replay]
        ELSE IF new_cursor.is_partial
        THEN [st EXCEPT !.word_chars = Append(@, c), !.cursor = new_cursor]
        ELSE [st EXCEPT !.tokens = Append(@, Key(Append(st.word_chars, c))),
                        !.cursor = Start, !.word_chars = <<>>]

\* The loop `for c in src` over src[lo..hi], in order (split in halves to
\* keep the evaluation shallow); an Err ends the loop
RECURSIVE TokenizeRange(_, _, _, _)
TokenizeRange(st, src, lo, hi) ==
    IF lo > hi THEN st
    ELSE IF lo = hi THEN TokenizeStep(st, src[lo])
    ELSE LET left == TokenizeRange(st, src, lo, (lo + hi) \div 2)
         IN  IF ~left.res.ok THEN left
             ELSE TokenizeRange(left, src, ((lo + hi) \div 2) + 1, hi)

\* Lexer::tokenize
tokenize(src) ==
    LET st == TokenizeRange([tokens |-> <<>>, word_chars |-> <<>>,
                             cursor |-> Start, res |-> Ok(<<>>)],
                            src, 1, Len(src))
    IN  IF st.res.ok THEN Ok(st.tokens) ELSE st.res

----------------------------------------------------------------------------
(* Parser                                                                  *)

\* A Chord is the sequence of its keys; a Sequence is a sequence of Chords.

\* The loop body with a Dash accepted whatever the flag says
ParseStep_dash_ok(st, token) ==
    IF token.t = "Key"
    THEN IF st.saw_dash
         THEN [st EXCEPT !.keys = Append(@, token.key), !.saw_dash = FALSE]
         ELSE [st EXCEPT !.chords = Append(@, st.keys), !.keys = <<token.key>>]
    ELSE [st EXCEPT !.saw_dash = TRUE]

\* The loop body with a Key after a Key joining the pending chord
ParseStep_no_boundary(st, token) ==
    IF token.t = "Key"
    THEN [st EXCEPT !.keys = Append(@, token.key), !.saw_dash = FALSE]
    ELSE IF st.saw_dash
         THEN [st EXCEPT !.res = Err("unexpected DASH token")]
         ELSE [st EXCEPT !.saw_dash = TRUE]

\* The body of `for token in tokens` in parse.  st holds the locals chords,
\* keys and saw_dash; st.res is Ok until parse returns early.
ParseStep(st, token) ==
    IF token.t = "Key"
    THEN IF st.saw_dash
         THEN [st EXCEPT !.keys = Append(@, token.key), !.saw_dash = FALSE]
         ELSE [st EXCEPT !.chords = Append(@, st.keys), !.keys = <<token.key>>]
    ELSE IF st.saw_dash
         THEN [st EXCEPT !.res = Err("unexpected DASH token")]
         ELSE [st EXCEPT !.saw_dash = TRUE]

RECURSIVE ParseRange(_, _, _, _)
ParseRange(st, tokens, lo, hi) ==
    IF lo > hi THEN st
    ELSE IF lo = hi THEN ParseStep(st, tokens[lo])
    ELSE LET left == ParseRange(st, tokens, lo, (lo + hi) \div 2)
         IN  IF ~left.res.ok THEN left
             ELSE ParseRange(left, tokens, ((lo + hi) \div 2) + 1, hi)

parse(tokens) ==
    LET st == ParseRange([chords |-> <<>>, keys |-> <<>>, saw_dash |-> TRUE,
                          res |-> Ok(<<>>)],
                         tokens, 1, Len(tokens))
    IN  IF ~st.res.ok THEN st.res
        ELSE Ok(IF Len(st.keys) > 0 THEN Append(st.chords, st.keys) ELSE st.chords)

----------------------------------------------------------------------------
(* Chord                                                                   *)

is_ctrl(key) == key = CTRL

is_sym(key) ==
    IF key = SPACE THEN TRUE
    ELSE IF Len(key) /= 1 THEN FALSE
    ELSE IsDigit36(key[1])

is_key(key) == is_ctrl(key) \/ is_sym(key)

check_valid(chord) ==
    IF \E i \in 1..Len(chord) : ~is_key(chord[i])
    THEN Err("invalid chord: invalid key")
    ELSE IF Len(chord) = 1
    THEN IF is_ctrl(chord[1])
         THEN Err("invalid chord: Ctrl is not a cord")
         ELSE Ok(<<>>)
    ELSE IF Len(chord) = 2
    THEN IF ~is_ctrl(chord[1])
         THEN Err("invalid chord: Ctrl is the only supported mod key")
         ELSE IF is_ctrl(chord[2])
         THEN Err("invalid chord: Ctrl cannot be repeated")
         ELSE Ok(<<>>)
    ELSE Err("invalid chord")

\* impl fmt::Display for Chord: the keys joined by "-"
RECURSIVE Chord_fmt(_)
Chord_fmt(chord) ==
    IF chord = <<>> THEN <<>>
    ELSE IF Len(chord) = 1 THEN chord[1]
    ELSE chord[1] \o <<"-">> \o Chord_fmt(Tail(chord))

\* The scan of CONTROL_CODES in key_code: the first entry whose text matches
ControlCode(ctrl_chord) ==
    LET hits == {i \in 1..Len(CONTROL_CODES) : CONTROL_CODES[i][1] = ctrl_chord}
    IN  IF hits = {} THEN None
        ELSE Some(CONTROL_CODES[CHOOSE i \in hits : \A j \in hits : i <= j][2])

key_code(chord) ==
    IF ~check_valid(chord).ok THEN check_valid(chord)
    ELSE IF Len(chord) = 1 /\ is_sym(chord[1])
    THEN IF chord[1] = SPACE THEN Ok(32)
         ELSE Ok(AsU8(CodePoint(chord[1][1])))
    ELSE IF Len(chord) = 2 /\ IsSome(ControlCode(Chord_fmt(chord)))
    THEN Ok(Unwrap(ControlCode(Chord_fmt(chord))))
    ELSE Err("unknown key code for chord")

----------------------------------------------------------------------------
(* Keybindings table                                                       *)

\* enum Action
Action == {"Detach"}

ChordLimitMsg == "shpool only supports up to 255 unique chords at a time"

\* The chord loop body without `chord_atom_counter += 1`
NewChord_no_increment(st, chord) ==
    LET code == key_code(chord)
        fresh == chord \notin DOMAIN st.chord_atom_tab
        tab == IF fresh
               THEN [c \in (DOMAIN st.chord_atom_tab) \cup {chord} |->
                        IF c = chord THEN st.chord_atom_counter
                        ELSE st.chord_atom_tab[c]]
               ELSE st.chord_atom_tab
    IN  IF ~code.ok THEN [st EXCEPT !.res = code]
        ELSE IF Trie_insert_panics(st.chords, <<code.val>>)
        THEN [st EXCEPT !.chord_atom_tab = tab, !.panic = TRUE]
        ELSE [st EXCEPT !.chord_atom_tab = tab,
                        !.chords = Trie_insert(@, <<code.val>>, tab[chord])]

\* The chord loop body with atoms numbered downwards from u8::MAX
NewChord_atoms_from_top(st, chord) ==
    LET code == key_code(chord)
        fresh == chord \notin DOMAIN st.chord_atom_tab
        tab == IF fresh
               THEN [c \in (DOMAIN st.chord_atom_tab) \cup {chord} |->
                        IF c = chord THEN U8_MAX - st.chord_atom_counter
                        ELSE st.chord_atom_tab[c]]
               ELSE st.chord_atom_tab
        counter == IF fresh THEN st.chord_atom_counter + 1 ELSE st.chord_atom_counter
    IN  IF ~code.ok THEN [st EXCEPT !.res = code]
        ELSE IF counter >= U8_MAX
        THEN [st EXCEPT !.chord_atom_tab = tab, !.chord_atom_counter = counter,
                        !.res = Err(ChordLimitMsg)]
        ELSE IF Trie_insert_panics(st.chords, <<code.val>>)
        THEN [st EXCEPT !.chord_atom_tab = tab, !.chord_atom_counter = counter,
                        !.panic = TRUE]
        ELSE [st EXCEPT !.chord_atom_tab = tab, !.chord_atom_counter = counter,
                        !.chords = Trie_insert(@, <<code.val>>, tab[chord])]

\* The body of `for chord in sequence.0.iter()` in Bindings::new, one chord.
\* st holds the locals of new; st.res is Ok until new returns early, and
\* st.panic is set when a trie insert indexes its table out of range.
NewChord(st, chord) ==
    LET code == key_code(chord)
        fresh == chord \notin DOMAIN st.chord_atom_tab
        tab == IF fresh
               THEN [c \in (DOMAIN st.chord_atom_tab) \cup {chord} |->
                        IF c = chord THEN st.chord_atom_counter
                        ELSE st.chord_atom_tab[c]]
               ELSE st.chord_atom_tab
        counter == IF fresh THEN st.chord_atom_counter + 1
                   ELSE st.chord_atom_counter
    IN  IF ~code.ok THEN [st EXCEPT !.res = code]
        ELSE IF counter >= U8_MAX
        THEN [st EXCEPT !.chord_atom_tab = tab, !.chord_atom_counter = counter,
                        !.res = Err(ChordLimitMsg)]
        ELSE IF Trie_insert_panics(st.chords, <<code.val>>)
        THEN [st EXCEPT !.chord_atom_tab = tab, !.chord_atom_counter = counter,
                        !.panic = TRUE]
        ELSE [st EXCEPT !.chord_atom_tab = tab, !.chord_atom_counter = counter,
                        !.chords = Trie_insert(@, <<code.val>>, tab[chord])]

\* The loop `for chord in sequence.0.iter()` over sequence[lo..hi], in order
RECURSIVE NewChords(_, _, _, _)
NewChords(st, sequence, lo, hi) ==
    IF lo > hi THEN st
    ELSE IF lo = hi THEN NewChord(st, sequence[lo])
    ELSE LET left == NewChords(st, sequence, lo, (lo + hi) \div 2)
         IN  IF ~left.res.ok \/ left.panic THEN left
             ELSE NewChords(left, sequence, ((lo + hi) \div 2) + 1, hi)

\* sequences.insert(chord_atom_seq.into_iter(), action): after holds the locals
\* once the chords of sequence are compiled, atoms the chord atoms in order
NewSequenceInsert(after, atoms, action) ==
    IF Trie_insert_panics(after.sequences, atoms)
    THEN [after EXCEPT !.panic = TRUE]
    ELSE [after EXCEPT !.sequences = Trie_insert(@, atoms, action)]

\* The chord atom sequence of a parsed binding, read from chord_atom_tab as
\* the chord loop left it; a chord loop that returned early ends the run
NewAtoms(after, sequence, action) ==
    IF ~after.res.ok \/ after.panic THEN after
    ELSE NewSequenceInsert(
             after,
             [i \in 1..Len(sequence) |-> after.chord_atom_tab[sequence[i]]],
             action)

\* `let sequence = parse(tokens).context("parsing keybinding")?` and the rest
\* of the loop body
NewSequence(st, sequence, action) ==
    IF ~sequence.ok THEN [st EXCEPT !.res = sequence]
    ELSE NewAtoms(NewChords(st, sequence.val, 1, Len(sequence.val)),
                  sequence.val, action)

\* `let tokens = ...tokenize(...).context("tokenizing keybinding")?` and the
\* rest of the loop body
NewTokens(st, tokens, action) ==
    IF ~tokens.ok THEN [st EXCEPT !.res = tokens]
    ELSE NewSequence(st, Context(parse(tokens.val), "parsing keybinding"),
                     action)

\* The body of `for (binding_src, action) in bindings` in Bindings::new
NewBinding(st, binding_src, action) ==
    NewTokens(st, Context(tokenize(binding_src), "tokenizing keybinding"),
              action)

\* The loop `for (binding_src, action) in bindings` over bindings[lo..hi]
RECURSIVE NewLoop(_, _, _, _)
NewLoop(st, bindings, lo, hi) ==
    IF lo > hi THEN st
    ELSE IF lo = hi THEN NewBinding(st, bindings[lo][1], bindings[lo][2])
    ELSE LET left == NewLoop(st, bindings, lo, (lo + hi) \div 2)
         IN  IF ~left.res.ok \/ left.panic THEN left
             ELSE NewLoop(left, bindings, ((lo + hi) \div 2) + 1, hi)

\* The locals of Bindings::new when it returns (or aborts), for the bindings
\* given as a sequence of <<binding_src, action>> pairs.
NewRun(bindings) ==
    NewLoop([chords |-> Trie_new("Vec"), sequences |-> Trie_new("Vec"),
             chord_atom_counter |-> 0, chord_atom_tab |-> [c \in {} |-> 0],
             res |-> Ok(<<>>), panic |-> FALSE],
            bindings, 1, Len(bindings))

\* The Bindings value that Bindings::new returns from a run that ended Ok
Bindings_new(run) ==
    [chords |-> run.chords, chords_cursor |-> Start,
     sequences |-> run.sequences, sequences_cursor |-> Start]

\* What a transition call hands back: the engine afterwards, the
\* Option<&Action> returned, the sequences cursor the action was read from,
\* and whether the call panicked on a table index out of range.
Returned(self, out_action, cursor, panicked) ==
    [self |-> self, out |-> out_action, at |-> cursor, panic |-> panicked]

\* The arms of `match self.sequences_cursor`, with a complete match handled
\* as a partial one: the guard `if is_partial` left out
OnChord_all_partial(self, chord_atom) ==
    LET reset == [self EXCEPT !.chords_cursor = Start]
        sequences_cursor ==
            Trie_advance(self.sequences, self.sequences_cursor, chord_atom)
    IN  IF Trie_advance_panics(self.sequences, self.sequences_cursor, chord_atom)
        THEN Returned(reset, None, None, TRUE)
        ELSE IF sequences_cursor.kind = "Match"
        THEN Returned([reset EXCEPT !.sequences_cursor = sequences_cursor],
                      None, None, FALSE)
        ELSE Returned([reset EXCEPT !.sequences_cursor = Start], None, None, FALSE)

\* The chord branch without `self.chords_cursor = TrieCursor::Start`
OnChord_keep_chords_cursor(self, chord_atom) ==
    LET sequences_cursor ==
            Trie_advance(self.sequences, self.sequences_cursor, chord_atom)
    IN  IF Trie_advance_panics(self.sequences, self.sequences_cursor, chord_atom)
        THEN Returned(self, None, None, TRUE)
        ELSE IF sequences_cursor.kind = "Match" /\ sequences_cursor.is_partial
        THEN Returned([self EXCEPT !.sequences_cursor = sequences_cursor],
                      None, None, FALSE)
        ELSE IF sequences_cursor.kind = "Match"
        THEN Returned([self EXCEPT !.sequences_cursor = Start],
                      Trie_get(self.sequences, sequences_cursor),
                      Some(sequences_cursor), FALSE)
        ELSE Returned([self EXCEPT !.sequences_cursor = Start], None, None, FALSE)

\* The chord branch without the reset of the sequences cursor after a
\* complete match: the engine keeps matching past a completed binding
OnChord_no_reset(self, chord_atom) ==
    LET reset == [self EXCEPT !.chords_cursor = Start]
        sequences_cursor ==
            Trie_advance(self.sequences, self.sequences_cursor, chord_atom)
    IN  IF Trie_advance_panics(self.sequences, self.sequences_cursor, chord_atom)
        THEN Returned(reset, None, None, TRUE)
        ELSE IF sequences_cursor.kind = "Match" /\ sequences_cursor.is_partial
        THEN Returned([reset EXCEPT !.sequences_cursor = sequences_cursor],
                      None, None, FALSE)
        ELSE IF sequences_cursor.kind = "Match"
        THEN Returned([reset EXCEPT !.sequences_cursor = sequences_cursor],
                      Trie_get(self.sequences, sequences_cursor),
                      Some(sequences_cursor), FALSE)
        ELSE Returned([reset EXCEPT !.sequences_cursor = Start], None, None, FALSE)

\* Bindings::transition, the branch taken when the byte completed a chord;
\* self.chords_cursor has been advanced
OnChord(self, chord_atom) ==
    LET reset == [self EXCEPT !.chords_cursor = Start]
        sequences_cursor ==
            Trie_advance(self.sequences, self.sequences_cursor, chord_atom)
    IN  IF Trie_advance_panics(self.sequences, self.sequences_cursor, chord_atom)
        THEN Returned(reset, None, None, TRUE)
        ELSE IF sequences_cursor.kind = "Match" /\ sequences_cursor.is_partial
        THEN Returned([reset EXCEPT !.sequences_cursor = sequences_cursor],
                      None, None, FALSE)
        ELSE IF sequences_cursor.kind = "Match"
        THEN Returned([reset EXCEPT !.sequences_cursor = Start],
                      Trie_get(self.sequences, sequences_cursor),
                      Some(sequences_cursor), FALSE)
        ELSE Returned([reset EXCEPT !.sequences_cursor = Start], None, None, FALSE)

\* The no-chord branch resetting only the chords cursor on NoMatch
OnNoChord_keep_sequence(self) ==
    IF self.chords_cursor.kind = "NoMatch"
    THEN Returned([self EXCEPT !.chords_cursor = Start], None, None, FALSE)
    ELSE Returned(self, None, None, FALSE)

\* The no-chord branch resetting only the sequences cursor on NoMatch
OnNoChord_keep_chords_cursor(self) ==
    IF self.chords_cursor.kind = "NoMatch"
    THEN Returned([self EXCEPT !.sequences_cursor = Start], None, None, FALSE)
    ELSE Returned(self, None, None, FALSE)

\* Bindings::transition, the branch taken when the byte completed no chord;
\* self.chords_cursor has been advanced
OnNoChord(self) ==
    IF self.chords_cursor.kind = "NoMatch"
    THEN Returned([self EXCEPT !.sequences_cursor = Start, !.chords_cursor = Start],
                  None, None, FALSE)
    ELSE Returned(self, None, None, FALSE)

\* Bindings::transition on the engine `self`
transition(self, byte) ==
    IF Trie_advance_panics(self.chords, self.chords_cursor, byte)
    THEN Returned(self, None, None, TRUE)
    ELSE LET advanced == [self EXCEPT !.chords_cursor =
                             Trie_advance(self.chords, self.chords_cursor, byte)]
             chord_atom == Trie_get(advanced.chords, advanced.chords_cursor)
         IN  IF IsSome(chord_atom)
             THEN OnChord(advanced, Unwrap(chord_atom))
             ELSE OnNoChord(advanced)

----------------------------------------------------------------------------
(* The engine as a state machine: Bindings::new once, then one transition  *)
(* call per input byte.  The front end (tokenize, parse) is also run on    *)
(* its own, on binding strings put together from a few pieces.             *)

VARIABLES
    pc,              \* "init", "ready" (new returned Ok), "failed" (new
                     \* returned Err) or "panicked" (a call aborted)
    bindings,        \* the <<binding_src, action>> pairs given to new
    new_res,         \* what new returned: Ok or the Err
    chord_atom_tab,  \* new's chord -> ChordAtom table when it returned
    self,            \* the Bindings value
    fed,             \* the last MaxFed bytes given to transition, oldest first
    out,             \* what the last transition call returned
    at,              \* the sequences cursor that call read its action from
    u_pc,            \* front-end run: "src", "tokenized" or "parsed"
    u_src,           \* front-end run: the binding string
    u_tokens,        \* front-end run: the result of tokenize(u_src)
    u_seq,           \* front-end run: the result of parse of those tokens
    k_pc,            \* chord run: "chord", "checked" or "coded"
    k_chord,         \* chord run: the Chord
    k_valid,         \* chord run: the result of k_chord.check_valid()
    k_code,          \* chord run: the result of k_chord.key_code()
    t_trie,          \* trie run: a Trie<char, V, HashMap<char, usize>>
    t_inserted,      \* trie run: the keys given to insert so far
    t_last,          \* trie run: the last insert call, with the value it found
    tab_vec,         \* table run: a dense Vec<Option<usize>> table
    tab_map,         \* table run: a HashMap<u8, usize> table
    tab_pc           \* table run: "ok", or "panicked" after a set call aborted

engine_vars == <<pc, bindings, new_res, chord_atom_tab, self, fed, out, at>>

unit_vars == <<u_pc, u_src, u_tokens, u_seq>>

chord_vars == <<k_pc, k_chord, k_valid, k_code>>

trie_vars == <<t_trie, t_inserted, t_last>>

tab_vars == <<tab_vec, tab_map, tab_pc>>

vars == <<pc, bindings, new_res, chord_atom_tab, self, fed, out, at,
          u_pc, u_src, u_tokens, u_seq, k_pc, k_chord, k_valid, k_code,
          t_trie, t_inserted, t_last, tab_vec, tab_map, tab_pc>>

\* How many bytes of input history are kept
MaxFed == 3

\* How many bindings one new call is given
MaxBindings == 2

\* How many pieces a front-end binding string is put together from
MaxPieces == 4

\* The input bytes tried: the codes of the chords of BindingSrcs (Ctrl-Space,
\* a, b), one byte that is no chord (Ctrl-t) and the largest byte.
Bytes == {0, 20, 97, 98, 255}

\* Binding strings compiled together, in every order and combination:
\* "a", "a b", "Ctrl-Space b", "" and the invalid "Ctrl-a-x"
BindingSrcs == {
    <<"a">>,
    <<"a", " ", "b">>,
    <<"C", "t", "r", "l", "-", "S", "p", "a", "c", "e", " ", "b">>,
    <<>>,
    <<"C", "t", "r", "l", "-", "a", "-", "x">> }

\* The chord texts of CONTROL_CODES, each compiled as the only binding
TableSrcs == {CONTROL_CODES[i][1] : i \in 1..Len(CONTROL_CODES)}

RECURSIVE Concat(_)
Concat(ss) == IF ss = <<>> THEN <<>> ELSE Head(ss) \o Concat(Tail(ss))

RECURSIVE SeqsUpTo(_, _)
SeqsUpTo(S, n) ==
    IF n = 0 THEN {<<>>}
    ELSE LET shorter == SeqsUpTo(S, n - 1)
         IN  shorter \cup {Append(s, x) : s \in shorter, x \in S}

\* Three bindings, each a strict prefix of the next: "a", "a b", "a b a"
NestedBindings == <<
    << <<"a">>, "Detach" >>,
    << <<"a", " ", "b">>, "Detach" >>,
    << <<"a", " ", "b", " ", "a">>, "Detach" >> >>

\* ManyChordsSide squared distinct chords in one binding string: the
\* two-key chords a-a, a-b, ... over the first ManyChordsSide letters
ManyChordsSide == 16

ManyChordsSrc ==
    [i \in 1..(4 * ManyChordsSide * ManyChordsSide) |->
        LET k == (i - 1) \div 4
        IN  CASE i % 4 = 1 -> LowerSeq[(k \div ManyChordsSide) + 1]
              [] i % 4 = 2 -> "-"
              [] i % 4 = 3 -> LowerSeq[(k % ManyChordsSide) + 1]
              [] i % 4 = 0 -> " "]

ManyChordsBindings == << <<ManyChordsSrc, "Detach">> >>

\* Every chord that has a key code, in one binding string:
\* "a b ... z Space Ctrl-a ... Ctrl-z Ctrl-Space"
AllChordsSrc ==
    Concat([n \in 1..Len(LowerSeq) |-> <<LowerSeq[n], " ">>])
        \o SPACE \o <<" ">>
        \o Concat([n \in 1..Len(LowerSeq) |-> CTRL \o <<"-", LowerSeq[n], " ">>])
        \o CTRL \o <<"-">> \o SPACE

AllChordsBindings == << <<AllChordsSrc, "Detach">> >>

BindingLists ==
    (SeqsUpTo(BindingSrcs \X Action, MaxBindings) \ {<<>>})
        \cup {<< <<src, a>> >> : src \in TableSrcs, a \in Action}
        \cup {NestedBindings, ManyChordsBindings, AllChordsBindings}

Pieces == {
    <<"a">>, <<"c">>, <<"1">>, <<" ">>, <<"-">>, <<"A">>,
    CTRL, SPACE, <<"C", "t", "r">>, <<"S", "p">> }

UnitSrcs == {Concat(ps) : ps \in SeqsUpTo(Pieces, MaxPieces)}

EngineInit ==
    /\ pc = "init"
    /\ bindings = <<>>
    /\ new_res = Ok(<<>>)
    /\ chord_atom_tab = <<>>
    /\ self = Bindings_new(NewRun(<<>>))
    /\ fed = <<>>
    /\ out = None
    /\ at = None

\* No chord run
ChordIdle ==
    /\ k_pc = "chord"
    /\ k_chord = <<>>
    /\ k_valid = Ok(<<>>)
    /\ k_code = Ok(0)

\* Trie::new for the trie run, nothing inserted
TrieInit ==
    /\ t_trie = Trie_new("HashMap")
    /\ t_inserted = {}
    /\ t_last = None

\* TrieTab::new for both tables of the table run
TabInit ==
    /\ tab_vec = TrieTab_new("Vec")
    /\ tab_map = TrieTab_new("HashMap")
    /\ tab_pc = "ok"

Init ==
    /\ EngineInit
    /\ u_pc = "src"
    /\ u_src = <<>>
    /\ u_tokens = Ok(<<>>)
    /\ u_seq = Ok(<<>>)
    /\ ChordIdle
    /\ TrieInit
    /\ TabInit

\* Bindings::new(b)
New(b) ==
    /\ pc = "init"
    /\ \E run \in {NewRun(b)} :
           /\ pc' = IF run.panic THEN "panicked"
                    ELSE IF run.res.ok THEN "ready" ELSE "failed"
           /\ new_res' = run.res
           /\ chord_atom_tab' = run.chord_atom_tab
           /\ self' = Bindings_new(run)
    /\ bindings' = b
    /\ UNCHANGED <<fed, out, at>>
    /\ UNCHANGED <<unit_vars, chord_vars, trie_vars, tab_vars>>

Remember(history, byte) ==
    IF Len(history) < MaxFed THEN Append(history, byte)
    ELSE Append(Tail(history), byte)

\* self.transition(byte)
Transition(byte) ==
    /\ pc = "ready"
    /\ \E r \in {transition(self, byte)} :
           /\ pc' = IF r.panic THEN "panicked" ELSE "ready"
           /\ self' = r.self
           /\ out' = r.out
           /\ at' = r.at
    /\ fed' = Remember(fed, byte)
    /\ UNCHANGED <<bindings, new_res, chord_atom_tab>>
    /\ UNCHANGED <<unit_vars, chord_vars, trie_vars, tab_vars>>

Next ==
    \/ \E b \in BindingLists : New(b)
    \/ \E byte \in Bytes : Transition(byte)

Spec == Init /\ [][Next]_vars

\* The front end on its own: Lexer::tokenize, then parse
UnitInit ==
    /\ EngineInit
    /\ u_pc = "src"
    /\ u_src \in UnitSrcs
    /\ u_tokens = Ok(<<>>)
    /\ u_seq = Ok(<<>>)
    /\ ChordIdle
    /\ TrieInit
    /\ TabInit

Tokenize ==
    /\ u_pc = "src"
    /\ u_tokens' = tokenize(u_src)
    /\ u_pc' = "tokenized"
    /\ UNCHANGED <<u_src, u_seq>>
    /\ UNCHANGED <<engine_vars, chord_vars, trie_vars, tab_vars>>

Parse ==
    /\ u_pc = "tokenized"
    /\ u_tokens.ok
    /\ u_seq' = parse(u_tokens.val)
    /\ u_pc' = "parsed"
    /\ UNCHANGED <<u_src, u_tokens>>
    /\ UNCHANGED <<engine_vars, chord_vars, trie_vars, tab_vars>>

UnitNext == Tokenize \/ Parse

UnitSpec == UnitInit /\ [][UnitNext]_vars

\* No front-end run
UnitIdle ==
    /\ u_pc = "src"
    /\ u_src = <<>>
    /\ u_tokens = Ok(<<>>)
    /\ u_seq = Ok(<<>>)

\* How many keys a chord given to check_valid and key_code has at most
MaxKeys == 3

\* Key labels chords are put together from: Ctrl, Space, lowercase letters,
\* digits, an uppercase letter, a dash, a two-character label, the empty one
ChordKeys == {
    CTRL, SPACE, <<"a">>, <<"z">>, <<"0">>, <<"1">>, <<"A">>, <<"-">>,
    <<"a", "b">>, <<>> }

\* Every label the binding language calls a symbol
Symbols == {SPACE} \cup {<<c>> : c \in LowerLetters \cup Digits}

\* The chords tried: every chord of up to MaxKeys of the ChordKeys, and
\* every symbol alone and after Ctrl
Chords ==
    SeqsUpTo(ChordKeys, MaxKeys)
        \cup {<<sym>> : sym \in Symbols}
        \cup {<<CTRL, sym>> : sym \in Symbols}

\* Chord validation and key codes on their own
ChordInit ==
    /\ EngineInit
    /\ UnitIdle
    /\ k_pc = "chord"
    /\ k_chord \in Chords
    /\ k_valid = Ok(<<>>)
    /\ k_code = Ok(0)
    /\ TrieInit
    /\ TabInit

\* k_chord.check_valid()
CheckValid ==
    /\ k_pc = "chord"
    /\ k_valid' = check_valid(k_chord)
    /\ k_pc' = "checked"
    /\ UNCHANGED <<k_chord, k_code>>
    /\ UNCHANGED <<engine_vars, unit_vars, trie_vars, tab_vars>>

\* k_chord.key_code()
KeyCode ==
    /\ k_pc = "checked"
    /\ k_code' = key_code(k_chord)
    /\ k_pc' = "coded"
    /\ UNCHANGED <<k_chord, k_valid>>
    /\ UNCHANGED <<engine_vars, unit_vars, trie_vars, tab_vars>>

ChordNext == CheckValid \/ KeyCode

ChordSpec == ChordInit /\ [][ChordNext]_vars

\* How long a text key of the trie run is at most
MaxKeyLen == 2

\* How many distinct keys the trie run inserts at most
MaxInserts == 3

TrieAlphabet == {"a", "b"}

\* The text keys inserted, the empty string among them
TrieKeys == SeqsUpTo(TrieAlphabet, MaxKeyLen)

\* The text keys looked up: the keys inserted and their one-char extensions
TrieProbes == SeqsUpTo(TrieAlphabet, MaxKeyLen + 1)

\* A trie over text keys on its own, as in test_trie_contains
TrieSpecInit ==
    /\ EngineInit
    /\ UnitIdle
    /\ ChordIdle
    /\ TrieInit
    /\ TabInit

\* t_trie.insert(k.chars(), ())
TrieInsert(k) ==
    /\ Cardinality(t_inserted \cup {k}) <= MaxInserts
    /\ t_trie' = Trie_insert(t_trie, k, <<>>)
    /\ t_inserted' = t_inserted \cup {k}
    /\ UNCHANGED <<t_last, engine_vars, unit_vars, chord_vars, tab_vars>>

TrieNext == \E k \in TrieKeys : TrieInsert(k)

TrieSpec == TrieSpecInit /\ [][TrieNext]_vars

\* How many distinct paths get a value in the run of inserts with values
MaxValued == 2

\* The paths given to insert: the root, siblings, a node and its child
InsertPaths == {<<>>, <<"a">>, <<"b">>, <<"a", "a">>, <<"a", "b">>}

\* The paths looked at after an insert: every text of up to three symbols
InsertProbes == SeqsUpTo(TrieAlphabet, 3)

\* The values stored: two, so that a later insert can differ from an earlier
InsertValues == {1, 2}

\* The value at the node a path of symbols leads to, None without such a node
PathValue(trie, path) ==
    IF ContainsWalk(trie, Start, path).kind = "Start" THEN trie.nodes[1].value
    ELSE Trie_get(trie, ContainsWalk(trie, Start, path))

\* t_trie.insert(path.chars(), v), for a trie whose values differ
Insert(path, v) ==
    /\ Cardinality(t_inserted \cup {path}) <= MaxValued
    /\ t_trie' = Trie_insert(t_trie, path, v)
    /\ t_inserted' = t_inserted \cup {path}
    /\ t_last' = Some([key |-> path, value |-> v, before |-> PathValue(t_trie, path)])
    /\ UNCHANGED <<engine_vars, unit_vars, chord_vars, tab_vars>>

InsertNext == \E path \in InsertPaths, v \in InsertValues : Insert(path, v)

InsertSpec == TrieSpecInit /\ [][InsertNext]_vars

\* The symbols given to set: the ends of the u8 range and some in between
TabSymbols == {0, 1, 97, 254, 255}

\* The node indexes stored
TabElems == {1, 2, 3}

\* The two symbol tables on their own, given the same set calls
TabSpecInit ==
    /\ EngineInit
    /\ UnitIdle
    /\ ChordIdle
    /\ TrieInit
    /\ TabInit

\* tab_vec.set(symbol, elem) and tab_map.set(symbol, elem); the set call of
\* the dense table aborts on an index out of range
TabSet(symbol, elem) ==
    /\ tab_pc = "ok"
    /\ tab_map' = TrieTab_set(tab_map, symbol, elem)
    /\ IF TrieTab_in_bounds(tab_vec, symbol)
       THEN /\ tab_vec' = TrieTab_set(tab_vec, symbol, elem)
            /\ tab_pc' = "ok"
       ELSE /\ tab_vec' = tab_vec
            /\ tab_pc' = "panicked"
    /\ UNCHANGED <<engine_vars, unit_vars, chord_vars, trie_vars>>

TabNext == \E symbol \in TabSymbols, elem \in TabElems : TabSet(symbol, elem)

TabSpec == TabSpecInit /\ [][TabNext]_vars

----------------------------------------------------------------------------
(* Vocabulary of the properties                                            *)

\* The binding strings given to new in some run
BindingSources == UNION {{b[i][1] : i \in 1..Len(b)} : b \in BindingLists}

\* binding string |-> the chords it stands for (none when it does not parse)
ParsedChords ==
    [src \in BindingSources |->
        IF tokenize(src).ok /\ parse(tokenize(src).val).ok
        THEN parse(tokenize(src).val).val
        ELSE <<>>] @@ <<>>

\* The chords a binding string stands for
ChordsOf(src) == ParsedChords[src]

\* binding string |-> the key codes of its chords, one byte per chord
ParsedCodes ==
    [src \in BindingSources |->
        [i \in 1..Len(ParsedChords[src]) |-> key_code(ParsedChords[src][i]).val]]
        @@ <<>>

\* The key codes of those chords, one byte per chord, in order
CodesOf(src) == ParsedCodes[src]

EndsWith(history, s) ==
    /\ Len(s) <= Len(history)
    /\ SubSeq(history, Len(history) - Len(s) + 1, Len(history)) = s

IsStrictPrefix(s, t) == Len(s) < Len(t) /\ SubSeq(t, 1, Len(s)) = s

\* The results of the transition calls that feed `bytes` to `engine` one at
\* a time, in order; feeding stops after a call that panics.
RECURSIVE Feed(_, _)
Feed(engine, bytes) ==
    IF bytes = <<>> THEN <<>>
    ELSE LET r == transition(engine, Head(bytes))
         IN  IF r.panic THEN <<r>> ELSE <<r>> \o Feed(r.self, Tail(bytes))

\* The engine as Bindings::new built it
Fresh == Bindings_new(NewRun(bindings))

\* The key codes of the chords that new compiled
CompiledCodes == {key_code(chord).val : chord \in DOMAIN chord_atom_tab}

\* The node of the sequences trie at the end of the path of a chord sequence
TerminalCursor(chords) ==
    ContainsWalk(self.sequences, Start,
                 [i \in 1..Len(chords) |-> chord_atom_tab[chords[i]]])

BindingIds == 1..Len(bindings)

----------------------------------------------------------------------------
(* C1: transition never fails.  After Bindings::new succeeded, in every    *)
(* reachable engine state the call transition(byte) returns (no action or  *)
(* an action) for every byte 0..255 and never aborts on a table index.     *)

C1_TransitionNeverFails ==
    pc = "ready" => \A byte \in 0..U8_MAX : ~transition(self, byte).panic

----------------------------------------------------------------------------
(* C2 as claimed: on every byte at which the bytes fed so far end with the *)
(* key codes of a configured binding, transition returns an action,        *)
(* whatever bytes came before.                                             *)

C2_FiresOnEverySuffix ==
    (pc = "ready" /\ fed /= <<>>) =>
        \A i \in BindingIds :
            (CodesOf(bindings[i][1]) /= <<>> /\ EndsWith(fed, CodesOf(bindings[i][1])))
                => IsSome(out)

(* C2 as amended: whenever the sequences cursor is Start (a fresh engine,  *)
(* or after bytes that left it there), feeding the key codes of a binding  *)
(* none of whose non-empty strict prefixes is itself a binding returns no  *)
(* action on every byte but the last and the binding's action on the last. *)

C2_FiresFromStart ==
    (pc = "ready" /\ self.sequences_cursor = Start) =>
        \A i \in BindingIds :
            LET chords == ChordsOf(bindings[i][1])
                rs == Feed(self, CodesOf(bindings[i][1]))
            IN  (/\ chords /= <<>>
                 /\ \A j \in BindingIds :
                        ~(/\ ChordsOf(bindings[j][1]) /= <<>>
                          /\ IsStrictPrefix(ChordsOf(bindings[j][1]), chords)))
                => /\ Len(rs) = Len(chords)
                   /\ \A k \in 1..Len(rs) : ~rs[k].panic
                   /\ \A k \in 1..(Len(rs) - 1) : rs[k].out = None
                   /\ \E j \in BindingIds :
                        /\ ChordsOf(bindings[j][1]) = chords
                        /\ rs[Len(rs)].out = Some(bindings[j][2])

\* A two-chord binding has just fired after a byte that is no chord
C2_Witness ==
    /\ pc = "ready"
    /\ IsSome(out)
    /\ Len(fed) >= 3
    /\ fed[Len(fed) - 2] \notin CompiledCodes
    /\ \E i \in BindingIds :
        /\ Len(CodesOf(bindings[i][1])) = 2
        /\ EndsWith(fed, CodesOf(bindings[i][1]))

----------------------------------------------------------------------------
(* C3: soundness of firing.  transition returns an action A only on a byte *)
(* at which the bytes fed so far end with the key codes of a configured    *)
(* binding bound to A.                                                     *)

C3_FiresOnlyOnBinding ==
    (pc = "ready" /\ IsSome(out)) =>
        \E i \in BindingIds :
            /\ bindings[i][2] = Unwrap(out)
            /\ CodesOf(bindings[i][1]) /= <<>>
            /\ EndsWith(fed, CodesOf(bindings[i][1]))

\* An action was returned with earlier, unrelated input in the history
C3_Witness ==
    /\ pc = "ready"
    /\ IsSome(out)
    /\ Len(fed) >= 3
    /\ \E i \in BindingIds :
        /\ Len(CodesOf(bindings[i][1])) = 1
        /\ EndsWith(fed, CodesOf(bindings[i][1]))
        /\ ~EndsWith(SubSeq(fed, 1, Len(fed) - 1), CodesOf(bindings[i][1]))

----------------------------------------------------------------------------
(* C4: in any reachable state, transition(b) for a byte b that is the key  *)
(* code of no compiled chord returns no action and leaves both cursors at  *)
(* Start, so that the engine is as freshly constructed.                    *)

C4_NonChordByteResets ==
    pc = "ready" =>
        \A b \in 0..U8_MAX :
            b \notin CompiledCodes =>
                /\ ~transition(self, b).panic
                /\ transition(self, b).out = None
                /\ transition(self, b).self = Fresh

----------------------------------------------------------------------------
(* C5: whenever transition returns an action, both cursors are Start when  *)
(* the call returns: the engine equals the freshly constructed one, so     *)
(* every later byte stream is matched as by a fresh engine.                *)

C5_FiredMeansFresh ==
    (pc = "ready" /\ IsSome(out)) => self = Fresh

\* A two-chord binding has just fired
C5_Witness ==
    /\ pc = "ready"
    /\ IsSome(out)
    /\ \E i \in BindingIds :
        /\ Len(CodesOf(bindings[i][1])) = 2
        /\ EndsWith(fed, CodesOf(bindings[i][1]))

----------------------------------------------------------------------------
(* C6 as claimed: earliest completion wins.  When the chord sequence of    *)
(* binding B1 is a strict prefix of that of binding B2, feeding B2's key   *)
(* codes returns B1's action at the end of B1's prefix and resets, the     *)
(* sequences cursor never rests on B2's terminal node, and no action is    *)
(* ever read from that node (B2 never fires).                              *)

CursorAt(cursor, chords) ==
    /\ cursor.kind = "Match"
    /\ TerminalCursor(chords).kind = "Match"
    /\ cursor.idx = TerminalCursor(chords).idx

NeverAt(chords) ==
    /\ ~CursorAt(self.sequences_cursor, chords)
    /\ IsSome(at) => ~CursorAt(Unwrap(at), chords)

\* Feeding the key codes of binding b from a Start cursor returns nothing
\* until the last byte, an action on it, and leaves both cursors at Start
FiresAtEnd(b) ==
    LET rs == Feed(self, CodesOf(bindings[b][1]))
    IN  /\ Len(rs) = Len(ChordsOf(bindings[b][1]))
        /\ \A k \in 1..Len(rs) : ~rs[k].panic
        /\ \A k \in 1..(Len(rs) - 1) : rs[k].out = None
        /\ rs /= <<>>
        /\ rs[Len(rs)].out = Some(bindings[b][2])
        /\ rs[Len(rs)].self.chords_cursor = Start
        /\ rs[Len(rs)].self.sequences_cursor = Start

C6_PrefixPreempts ==
    pc = "ready" =>
        \A b1, b2 \in BindingIds :
            IsStrictPrefix(ChordsOf(bindings[b1][1]), ChordsOf(bindings[b2][1])) =>
                /\ NeverAt(ChordsOf(bindings[b2][1]))
                /\ self.sequences_cursor = Start => FiresAtEnd(b1)

(* C6 as amended: when some binding with at least one chord has a chord    *)
(* sequence that is a strict prefix of that of binding B2, feeding B2's    *)
(* key codes from a Start cursor returns an action at the end of the       *)
(* shortest such binding and resets, the sequences cursor never rests on   *)
(* B2's terminal node and B2 never fires.  A binding with no chords is a   *)
(* strict prefix of every other but preempts nothing: without a non-empty  *)
(* prefix binding, B2 fires at the end of its own key codes.               *)

NonEmptyPrefixes(b2) ==
    {b1 \in BindingIds :
        /\ ChordsOf(bindings[b1][1]) /= <<>>
        /\ IsStrictPrefix(ChordsOf(bindings[b1][1]), ChordsOf(bindings[b2][1]))}

Shortest(bs) ==
    CHOOSE b \in bs :
        \A c \in bs : Len(ChordsOf(bindings[b][1])) <= Len(ChordsOf(bindings[c][1]))

C6_ShortestPrefixPreempts ==
    pc = "ready" =>
        \A b2 \in BindingIds :
            IF NonEmptyPrefixes(b2) /= {}
            THEN /\ NeverAt(ChordsOf(bindings[b2][1]))
                 /\ self.sequences_cursor = Start =>
                        FiresAtEnd(Shortest(NonEmptyPrefixes(b2)))
            ELSE (self.sequences_cursor = Start /\ ChordsOf(bindings[b2][1]) /= <<>>)
                     => FiresAtEnd(b2)

\* B1 = "a" has just fired on the first byte of B2 = "a b", and the byte
\* that would have completed B2 was then fed
C6_Witness ==
    /\ pc = "ready"
    /\ \E b2 \in BindingIds :
        /\ NonEmptyPrefixes(b2) /= {}
        /\ EndsWith(fed, CodesOf(bindings[b2][1]))
    /\ out = None

----------------------------------------------------------------------------
(* C7: the control-code table follows the standard control-letter mapping: *)
(* for the lowercase letter at alphabet position n (a = 1, ..., z = 26)    *)
(* key_code of Ctrl-<letter> is n, and the engine compiled from the one    *)
(* binding "Ctrl-<letter>" fires on byte n and on no other byte.           *)

CtrlLetterSrc(n) == CTRL \o <<"-", LowerSeq[n]>>

C7_ControlLetters ==
    \A n \in 1..Len(LowerSeq) :
        (pc /= "init" /\ bindings = << <<CtrlLetterSrc(n), "Detach">> >>) =>
            /\ pc = "ready"
            /\ key_code(<<CTRL, <<LowerSeq[n]>>>>) = Ok(n)
            /\ \A b \in 0..U8_MAX : IsSome(transition(Fresh, b).out) <=> b = n

----------------------------------------------------------------------------
(* C8: every entry (chord text, byte) of CONTROL_CODES is usable as a      *)
(* binding: Bindings::new on the chord text succeeds and the resulting     *)
(* engine returns the action when fed the entry's byte.                    *)

C8_TableEntriesUsable ==
    \A i \in 1..Len(CONTROL_CODES) :
        \A a \in Action :
            (pc /= "init" /\ bindings = << <<CONTROL_CODES[i][1], a>> >>) =>
                /\ pc = "ready"
                /\ transition(Fresh, CONTROL_CODES[i][2]).out = Some(a)

----------------------------------------------------------------------------
(* C9: round trip of single-symbol bindings.  For every binding string     *)
(* made of single symbols (a lowercase letter, a digit or the word Space)  *)
(* separated by whitespace, tokenize succeeds with one Key token per       *)
(* symbol, and parse of those tokens gives one one-key chord per symbol,   *)
(* in input order.                                                         *)

\* The maximal whitespace-free pieces of src, in order
RECURSIVE SplitWords(_, _, _)
SplitWords(src, word, words) ==
    IF src = <<>> THEN (IF word = <<>> THEN words ELSE Append(words, word))
    ELSE IF IsWhitespace(Head(src))
    THEN SplitWords(Tail(src), <<>>,
                    IF word = <<>> THEN words ELSE Append(words, word))
    ELSE SplitWords(Tail(src), Append(word, Head(src)), words)

IsSymbolWord(w) ==
    \/ w = SPACE
    \/ Len(w) = 1 /\ w[1] \in LowerLetters \cup Digits

C9_SingleSymbolRoundTrip ==
    LET words == SplitWords(u_src, <<>>, <<>>)
    IN  (\A i \in 1..Len(words) : IsSymbolWord(words[i])) =>
            /\ u_pc /= "src" =>
                   u_tokens = Ok([i \in 1..Len(words) |-> Key(words[i])])
            /\ u_pc = "parsed" =>
                   u_seq = Ok([i \in 1..Len(words) |-> <<words[i]>>])

----------------------------------------------------------------------------
(* C10: chord limit.  Bindings::new fails with the chord-limit error if    *)
(* and only if the bindings contain more than 255 distinct chords.         *)

DistinctChords(bs) == UNION {Range(ChordsOf(bs[i][1])) : i \in 1..Len(bs)}

C10_ChordLimit ==
    pc /= "init" =>
        ((~new_res.ok /\ new_res.err = ChordLimitMsg)
            <=> Cardinality(DistinctChords(bindings)) > U8_MAX)

----------------------------------------------------------------------------
(* C11: check_valid returns an error for every chord outside the two valid *)
(* shapes [sym] and [Ctrl, sym], where sym is Space or a single lowercase  *)
(* letter or digit: a key label outside that set, a lone Ctrl, a two-key   *)
(* chord not led by Ctrl, a repeated Ctrl, a length other than 1 or 2.     *)

ValidShape(chord) ==
    \/ Len(chord) = 1 /\ chord[1] \in Symbols
    \/ Len(chord) = 2 /\ chord[1] = CTRL /\ chord[2] \in Symbols

C11_InvalidChordsRejected ==
    (k_pc /= "chord" /\ ~ValidShape(k_chord)) => ~k_valid.ok

----------------------------------------------------------------------------
(* C12: key_code is total on valid chords: for every chord that            *)
(* check_valid accepts, a bare symbol or Ctrl followed by a lowercase      *)
(* letter, a digit or Space, key_code returns a byte, not an error, and    *)
(* the same byte on every call.                                            *)

C12_KeyCodeTotal ==
    (k_pc = "coded" /\ k_valid.ok /\ ValidShape(k_chord)) =>
        /\ k_code.ok
        /\ k_code.val \in 0..U8_MAX
        /\ key_code(k_chord) = k_code

----------------------------------------------------------------------------
(* C13: for a trie built by any sequence of insert calls over text keys,   *)
(* contains(k) is true exactly when k is one of the inserted keys: true    *)
(* for every inserted key, the empty string included, and false for every *)
(* key never inserted, strict prefixes and extensions of inserted keys     *)
(* included.                                                               *)

C13_ContainsExactlyInserted ==
    \A k \in TrieProbes : Trie_contains(t_trie, k) <=> k \in t_inserted

\* The empty key and a two-char key are inserted; the one-char prefix of
\* the latter and its extensions are not
C13_Witness ==
    /\ <<>> \in t_inserted
    /\ <<"a", "b">> \in t_inserted
    /\ <<"a">> \notin t_inserted
    /\ Cardinality(t_inserted) = MaxInserts

----------------------------------------------------------------------------
(* C14: broken keywords are lex errors.  Whenever tokenize has buffered a  *)
(* non-empty proper prefix of "Ctrl" or "Space" and the next character     *)
(* that is not whitespace does not continue that keyword, tokenize fails   *)
(* with an "unexpected char" error and returns no tokens.                  *)

\* The locals of tokenize when it starts
LexerStart ==
    [tokens |-> <<>>, word_chars |-> <<>>, cursor |-> Start, res |-> Ok(<<>>)]

\* The locals of tokenize before it reads src[k], src[k + 1], ..., up to
\* the character it fails on
RECURSIVE LexerBefore(_, _, _)
LexerBefore(st, src, k) ==
    IF k > Len(src) THEN <<>>
    ELSE LET next == TokenizeStep(st, src[k])
         IN  IF next.res.ok THEN <<st>> \o LexerBefore(next, src, k + 1)
             ELSE <<st>>

IsKeywordPrefix(word) ==
    \E kw \in {CTRL, SPACE} :
        /\ word /= <<>>
        /\ Len(word) < Len(kw)
        /\ SubSeq(kw, 1, Len(word)) = word

\* tokenize holds a keyword prefix before src[k], and src[k] breaks it
BreaksKeyword(before, src, k) ==
    /\ IsKeywordPrefix(before[k].word_chars)
    /\ ~IsWhitespace(src[k])
    /\ Append(before[k].word_chars, src[k]) \notin {CTRL, SPACE}
    /\ ~IsKeywordPrefix(Append(before[k].word_chars, src[k]))

C14_BrokenKeywordFails ==
    u_pc = "tokenized" =>
        LET before == LexerBefore(LexerStart, u_src, 1)
        IN  \A k \in 1..Len(before) :
                BreaksKeyword(before, u_src, k) =>
                    /\ ~u_tokens.ok
                    /\ u_tokens.err = "unexpected char"

\* A keyword is broken after tokens were already produced
C14_Witness ==
    /\ u_pc = "tokenized"
    /\ LET before == LexerBefore(LexerStart, u_src, 1)
       IN  \E k \in 1..Len(before) :
               /\ BreaksKeyword(before, u_src, k)
               /\ before[k].tokens /= <<>>
               /\ Len(before[k].word_chars) >= 2

----------------------------------------------------------------------------
(* C15: every input character that is not whitespace is accounted for by a *)
(* successful tokenize: when tokenize returns Ok, the texts of its tokens  *)
(* (a Key as its text, a Dash as "-") concatenated give the input with the *)
(* whitespace removed; an input ending inside an unfinished keyword is not *)
(* accepted with those characters dropped.                                 *)

TokenText(token) == IF token.t = "Dash" THEN <<"-">> ELSE token.key

TokensText(tokens) == Concat([i \in 1..Len(tokens) |-> TokenText(tokens[i])])

StripWhitespace(src) == SelectSeq(src, LAMBDA c : ~IsWhitespace(c))

C15_EveryCharAccounted ==
    (u_pc /= "src" /\ u_tokens.ok) =>
        TokensText(u_tokens.val) = StripWhitespace(u_src)

----------------------------------------------------------------------------
(* C16: every binding accepted by Bindings::new has at least one chord: a  *)
(* binding string that yields no chords is rejected with a compile error,  *)
(* so the root of the sequences trie never holds an action.                *)

C16_NoEmptyBinding ==
    pc = "ready" =>
        /\ \A i \in BindingIds : ChordsOf(bindings[i][1]) /= <<>>
        /\ ~IsSome(self.sequences.nodes[1].value)

----------------------------------------------------------------------------
(* C17: parse fails with the unexpected-dash error exactly when a Dash     *)
(* token arrives while the last token was a dash or nothing came before:   *)
(* for a leading Dash or two Dash tokens in a row.  The first token of     *)
(* every accepted stream is a Key.                                         *)

DashAfterDash(tokens) ==
    \E i \in 1..Len(tokens) :
        /\ tokens[i] = Dash
        /\ i = 1 \/ tokens[i - 1] = Dash

C17_UnexpectedDash ==
    u_pc = "parsed" =>
        /\ ~u_seq.ok <=> DashAfterDash(u_tokens.val)
        /\ ~u_seq.ok => u_seq.err = "unexpected DASH token"
        /\ (u_seq.ok /\ u_tokens.val /= <<>>) => u_tokens.val[1].t = "Key"

\* parse failed on the second of two dashes in a row, after a key
C17_Witness ==
    /\ u_pc = "parsed"
    /\ ~u_seq.ok
    /\ Len(u_tokens.val) >= 3
    /\ u_tokens.val[1].t = "Key"
    /\ u_tokens.val[2] = Dash
    /\ u_tokens.val[3] = Dash

----------------------------------------------------------------------------
(* C18: a dash must be followed by a key: parse rejects a token stream     *)
(* whose last token is a Dash, as the tokens of "a-" or "Ctrl-".           *)

C18_NoDanglingDash ==
    (/\ u_pc = "parsed"
     /\ u_tokens.val /= <<>>
     /\ u_tokens.val[Len(u_tokens.val)] = Dash) => ~u_seq.ok

----------------------------------------------------------------------------
(* C19: chord grouping.  For every token stream that parse accepts, the    *)
(* keys of the output chords, concatenated in order, are the Key tokens of *)
(* the input in order; no chord is empty; and a chord boundary lies        *)
(* between two consecutive Key tokens exactly when no Dash stands between  *)
(* them.                                                                   *)

\* The positions of the Key tokens, in order
KeyPositions(tokens) ==
    SelectSeq([i \in 1..Len(tokens) |-> i], LAMBDA i : tokens[i].t = "Key")

\* How many keys the first m chords hold
RECURSIVE KeysUpTo(_, _)
KeysUpTo(chords, m) ==
    IF m = 0 THEN 0 ELSE KeysUpTo(chords, m - 1) + Len(chords[m])

\* The key counts after which one chord ends and the next begins
Boundaries(chords) == {KeysUpTo(chords, m) : m \in 1..(Len(chords) - 1)}

C19_ChordGrouping ==
    (u_pc = "parsed" /\ u_seq.ok) =>
        LET at_key == KeyPositions(u_tokens.val)
        IN  /\ Concat(u_seq.val) =
                   [j \in 1..Len(at_key) |-> u_tokens.val[at_key[j]].key]
            /\ \A c \in 1..Len(u_seq.val) : u_seq.val[c] /= <<>>
            /\ \A j \in 1..(Len(at_key) - 1) :
                   j \in Boundaries(u_seq.val) <=> at_key[j + 1] = at_key[j] + 1

\* A two-key chord followed by another chord, as for "Ctrl-a c"
C19_Witness ==
    /\ u_pc = "parsed"
    /\ u_seq.ok
    /\ Len(u_seq.val) = 2
    /\ Len(u_seq.val[1]) = 2

----------------------------------------------------------------------------
(* C20: the dense-array symbol table and the hash-map symbol table behave  *)
(* the same: after the same sequence of set(symbol, index) calls,          *)
(* get(symbol) gives the same result in both, the last index set for the   *)
(* symbol or none, for every symbol of the byte alphabet 0..255.           *)

C20_TablesAgree ==
    DOMAIN tab_map.m /= {} =>
        /\ tab_pc = "ok"
        /\ \A symbol \in 0..U8_MAX :
               /\ TrieTab_in_bounds(tab_vec, symbol)
               /\ TrieTab_get(tab_vec, symbol) = TrieTab_get(tab_map, symbol)

----------------------------------------------------------------------------
(* C21: chord/atom consistency after compilation.  In one Bindings::new    *)
(* run identical chords get the same ChordAtom and distinct chords get     *)
(* distinct ChordAtoms, and in the finished engine the chords trie maps    *)
(* the key code of every chord of every compiled binding to that chord's   *)
(* own atom.                                                               *)

\* The value the chords trie holds for a chord's key code
AtomOfCode(chord) ==
    Trie_get(self.chords, Trie_advance(self.chords, Start, key_code(chord).val))

\* The atoms the chords trie gives for the key codes of a binding
AtomsByCode(src) ==
    [i \in 1..Len(ChordsOf(src)) |-> Unwrap(AtomOfCode(ChordsOf(src)[i]))]

C21_ChordAtomConsistency ==
    pc = "ready" =>
        /\ \A c1, c2 \in DOMAIN chord_atom_tab :
               chord_atom_tab[c1] = chord_atom_tab[c2] => c1 = c2
        /\ \A i \in BindingIds :
               \A k \in 1..Len(ChordsOf(bindings[i][1])) :
                   /\ ChordsOf(bindings[i][1])[k] \in DOMAIN chord_atom_tab
                   /\ AtomOfCode(ChordsOf(bindings[i][1])[k]) =
                          Some(chord_atom_tab[ChordsOf(bindings[i][1])[k]])
        /\ \A i \in BindingIds :
               IsSome(Trie_get(self.sequences,
                               ContainsWalk(self.sequences, Start,
                                            AtomsByCode(bindings[i][1]))))
                   \/ ChordsOf(bindings[i][1]) = <<>>

\* Two compiled bindings share a chord, and three distinct chords have atoms
C21_Witness ==
    /\ pc = "ready"
    /\ Cardinality(DOMAIN chord_atom_tab) >= 3
    /\ \E i, j \in BindingIds :
           /\ i < j
           /\ ChordsOf(bindings[i][1]) /= ChordsOf(bindings[j][1])
           /\ Range(ChordsOf(bindings[i][1])) \cap Range(ChordsOf(bindings[j][1])) /= {}

----------------------------------------------------------------------------
(* C22: Trie insert is last-write-wins and touches nothing else.           *)
(* insert(path, v) makes the terminal value of exactly that path v,        *)
(* replacing any earlier value; the terminal value of every other path is  *)
(* unchanged; no existing node is removed or re-pointed; and every child   *)
(* index stored in a node's table is smaller than the number of nodes.     *)

\* Every edge of `old` is an edge of `new`, to the same node
EdgesKept(old, new) ==
    /\ Len(new.nodes) >= Len(old.nodes)
    /\ \A n \in 1..Len(old.nodes) : \A sym \in TrieAlphabet :
           IsSome(TrieTab_get(old.nodes[n].tab, sym)) =>
               TrieTab_get(new.nodes[n].tab, sym) = TrieTab_get(old.nodes[n].tab, sym)

\* Every child index stored in a table is the index of a node
ChildrenInNodes(trie) ==
    \A n \in 1..Len(trie.nodes) : \A sym \in TrieAlphabet :
        IsSome(TrieTab_get(trie.nodes[n].tab, sym)) =>
            Unwrap(TrieTab_get(trie.nodes[n].tab, sym)) < Len(trie.nodes)

InsertFrame ==
    t_trie' /= t_trie \/ t_last' /= t_last =>
        /\ IsSome(t_last')
        /\ PathValue(t_trie', Unwrap(t_last').key) = Some(Unwrap(t_last').value)
        /\ \A p \in InsertProbes \ {Unwrap(t_last').key} :
               PathValue(t_trie', p) = PathValue(t_trie, p)
        /\ EdgesKept(t_trie, t_trie')
        /\ ChildrenInNodes(t_trie')

C22_InsertLastWriteWins == [][InsertFrame]_vars

\* An insert has replaced the value 1 of its path by 2 while another path
\* holds a value
C22_Witness ==
    /\ IsSome(t_last)
    /\ Unwrap(t_last).before = Some(1)
    /\ Unwrap(t_last).value = 2
    /\ PathValue(t_trie, Unwrap(t_last).key) = Some(2)
    /\ \E p \in InsertPaths \ {Unwrap(t_last).key} : IsSome(PathValue(t_trie, p))

----------------------------------------------------------------------------
(* C23: cursor invariant between calls.  After every transition call on a  *)
(* Bindings built by new, the chords cursor is Start (every chord is one   *)
(* byte: every node of the chords trie below the root holds an atom, so no *)
(* partial chord is pending), and the sequences cursor is Start or a Match *)
(* with is_partial = true; no cursor is left in NoMatch or in a completed  *)
(* Match.                                                                  *)
C23_CursorsBetweenCalls ==
    (pc = "ready" /\ fed /= <<>>) =>
        /\ self.chords_cursor = Start
        /\ \A n \in 2..Len(self.chords.nodes) : IsSome(self.chords.nodes[n].value)
        /\ \/ self.sequences_cursor = Start
           \/ /\ self.sequences_cursor.kind = "Match"
              /\ self.sequences_cursor.is_partial

\* A call that took a chord byte has left the sequences cursor in a partial
\* match, and an earlier call has taken a byte that is no chord
C23_Witness ==
    /\ pc = "ready"
    /\ Len(fed) >= 2
    /\ IsSome(TrieTab_get(self.chords.nodes[1].tab, fed[Len(fed)]))
    /\ \E i \in 1..(Len(fed) - 1) :
           ~IsSome(TrieTab_get(self.chords.nodes[1].tab, fed[i]))
    /\ self.chords_cursor = Start
    /\ self.sequences_cursor.kind = "Match"
    /\ self.sequences_cursor.is_partial

----------------------------------------------------------------------------
(* C24: atom indices stay inside the dense table.  Every ChordAtom that    *)
(* Bindings::new passes to a trie insert, and every atom that transition   *)
(* passes to the sequences-trie advance, is smaller than the length of the *)
(* dense table (255): Bindings::new never aborts in an insert, the atoms   *)
(* handed out are 0 .. n-1 for n < 255 distinct chords, the chords trie    *)
(* holds only such atoms, and a transition call aborts only on a byte that *)
(* is outside the chords table, never on an atom.                          *)

\* The length of the dense table of a trie's root node
DenseLen(trie) == Len(trie.nodes[1].tab.v)

C24_AtomsInsideTable ==
    /\ ~(pc = "panicked" /\ fed = <<>>)
    /\ pc /= "init" =>
           /\ Cardinality(DOMAIN chord_atom_tab) < U8_MAX
           /\ \A c \in DOMAIN chord_atom_tab :
                  /\ chord_atom_tab[c] < Cardinality(DOMAIN chord_atom_tab)
                  /\ chord_atom_tab[c] < DenseLen(self.sequences)
    /\ pc = "ready" =>
           \A n \in 1..Len(self.chords.nodes) :
               IsSome(self.chords.nodes[n].value) =>
                   /\ Unwrap(self.chords.nodes[n].value) < DenseLen(self.sequences)
                   /\ ~Trie_advance_panics(self.sequences, self.sequences_cursor,
                                           Unwrap(self.chords.nodes[n].value))
    /\ pc = "panicked" =>
           ~TrieTab_in_bounds(self.chords.nodes[1].tab, fed[Len(fed)])

\* All chords that have a key code are compiled, and transition has passed
\* the largest atom to the sequences trie
C24_Witness ==
    /\ pc = "ready"
    /\ bindings = AllChordsBindings
    /\ Cardinality(DOMAIN chord_atom_tab) = 2 * (Len(LowerSeq) + 1)
    /\ fed /= <<>>
    /\ AtomOfCode(<<CTRL, SPACE>>) = Some(2 * Len(LowerSeq) + 1)
    /\ fed[Len(fed)] = key_code(<<CTRL, SPACE>>).val
====
